---- MODULE Spec2Model ----
(***************************************************************************)
(* Logout / session-invalidation coordinator of the SSO demo portal        *)
(* (src/app.py).                                                           *)
(*                                                                         *)
(* The state is the shared invalidation store (logout_redis), one session  *)
(* record per browser, the portal kind of the instance that serves each    *)
(* browser, and the position of the request each browser has in flight.    *)
(* A request handler is cut into steps at its accesses to the shared       *)
(* store: one step per redis command, with the handler-local statements    *)
(* around the command folded into the same step.  A browser has at most    *)
(* one request in flight, so the session record a handler works on is the  *)
(* stored one.                                                             *)
(***************************************************************************)
EXTENDS Naturals, FiniteSets, Sequences, TLC

\* ------------------------------------------------------------------ bounds

\* Lifetime of a marker, in clock ticks (the code's ttl=3600 seconds, scaled).
TtlTicks == 2

\* ------------------------------------------------------------ value domains

\* Python's None.
None == "<None>"

\* The browsers (one session cookie each).
Sessions == {"A", "B"}

\* argparse choices of --portal.
PortalKinds == {"internal", "external", "admin"}

\* The reserved subject of the "everyone" marker.
WILDCARD == "*"

\* A dict with no entries.
EmptyDict == [k \in {} |-> None]

\* dict.get(key, default)
Get(d, k, default) == IF k \in DOMAIN d THEN d[k] ELSE default

\* Python truthiness of an identifier value (None and "" are falsy).
Truthy(v) == v # None /\ v # ""

\* Userinfo claim sets with an ordinary subject identifier.
WellFormedUserInfos ==
    { [sub |-> "alice", preferred_username |-> "alice",
       email |-> "alice@example.com", name |-> "Alice A",
       realm_access |-> [roles |-> <<"admin">>]],
      [sub |-> "bob", preferred_username |-> "bob"] }

\* The userinfo claim sets the identity provider may hand back.  The code does
\* not constrain the subject: it may be an ordinary id, the text of the
\* reserved wildcard, or missing.
UserInfos ==
    WellFormedUserInfos
    \cup { [sub |-> "*", preferred_username |-> "star"],
           [preferred_username |-> "ghost"] }

\* What keycloak_client.authorize_access_token() may produce when the
\* provider issues the claim sets `infos`: an AuthlibBaseError, a token
\* without userinfo, or a token with userinfo.
ExchangeResults(infos) ==
    { [raised |-> TRUE, token |-> EmptyDict],
      [raised |-> FALSE, token |-> [access_token |-> "at"]] }
    \cup { [raised |-> FALSE, token |-> [userinfo |-> u, access_token |-> "at"]] :
             u \in infos }

\* The subjects a session can carry.
UserIds == { Get(u, "sub", None) : u \in UserInfos }

\* f"logout:{user_id}" (the common prefix dropped): None formats as "None".
Key(user_id) == IF user_id = None THEN "None" ELSE user_id

\* The keys of the invalidation store the program can touch.
Keys == { Key(u) : u \in UserIds } \cup {WILDCARD}

VARIABLES
    realm,         \* the userinfo claim sets the identity provider issues
    PORTAL_TYPE,   \* [Sessions -> PortalKinds]: portal of the serving instance
    logout_redis,  \* [Keys -> 0..TtlTicks]: remaining lifetime, 0 = no key
    session,       \* [Sessions -> dict]: the session record
    pc,            \* [Sessions -> position of the request in flight]
    user_id,       \* [Sessions -> local user_id of the handler in flight]
    resp,          \* <<browser, outcome>> of the request that returned last
    held,          \* history: markers present ever since the gate check began
    hit,           \* history: which lookup of the gate found a marker
    login,         \* history: a login no logout request has followed
    revoked        \* history: a logout that covered the record a session holds

vars == <<realm, PORTAL_TYPE, logout_redis, session, pc, user_id, resp, held, hit, login,
          revoked>>

\* ------------------------------------------------------- invalidation store

\* EXISTS that misses a key in the last tick of its lifetime.
exists_stale(store, k) == store[k] > 1

\* redis EXISTS
exists(store, k) == store[k] > 0

\* SETEX whose write is lost.
setex_lost(store, k, ttl) == store

\* redis SETEX key ttl "1"
setex(store, k, ttl) == [store EXCEPT ![k] = ttl]

\* redis DEL
delete(store, k) == [store EXCEPT ![k] = 0]

\* is_user_logged_out that ignores the wildcard marker.
is_marked_exact_only(store, uid) == exists(store, Key(uid))

\* def is_user_logged_out(user_id), with both lookups against one store state.
is_user_logged_out(store, uid) ==
    exists(store, Key(uid)) \/ exists(store, WILDCARD)

\* mark_user_logged_out that leaves the lifetime of a key already set as it is.
mark_keeps_ttl(store, uid) ==
    IF store[Key(uid)] > 0 THEN store ELSE setex(store, Key(uid), TtlTicks)

\* def mark_user_logged_out(user_id, ttl=3600)
mark_user_logged_out(store, uid) == setex(store, Key(uid), TtlTicks)

\* clear_logout_state that deletes nothing.
clear_nothing(store, uid) == store

\* def clear_logout_state(user_id)
clear_logout_state(store, uid) == delete(store, Key(uid))

\* ----------------------------------------------------------- session record

\* 'user' in session
HasUser(sess) == "user" \in DOMAIN sess

\* session.get('user', {}).get('id')
SessionUserId(sess) == Get(Get(sess, "user", EmptyDict), "id", None)

\* The dict stored under session['user'] by admin_callback.
UserRecord(user_info) ==
    [id       |-> Get(user_info, "sub", None),
     username |-> Get(user_info, "preferred_username", None),
     email    |-> Get(user_info, "email", None),
     name     |-> Get(user_info, "name", Get(user_info, "preferred_username", None)),
     roles    |-> Get(Get(user_info, "realm_access", EmptyDict), "roles", <<>>)]

\* session['user'] = {...}; session['access_token'] = token.get('access_token')
PopulatedSession(token) ==
    [user |-> UserRecord(token.userinfo),
     access_token |-> Get(token, "access_token", None)]

\* session.clear()
ClearedSession == EmptyDict

\* ------------------------------------------------------------------- Init

Init ==
    /\ realm \in {WellFormedUserInfos, UserInfos}
    /\ PORTAL_TYPE \in [Sessions -> PortalKinds]
    /\ logout_redis = [k \in Keys |-> 0]
    /\ session = [s \in Sessions |-> EmptyDict]
    /\ pc = [s \in Sessions |-> "idle"]
    /\ user_id = [s \in Sessions |-> None]
    /\ resp = <<"none", "none">>
    /\ held = [s \in Sessions |-> {}]
    /\ hit = [s \in Sessions |-> "none"]
    /\ login = [s \in Sessions |-> "none"]
    /\ revoked = [s \in Sessions |-> "no"]

\* --------------------------------------------------------- history helpers

\* The keys present in a store state.
Live(store) == { k \in Keys : store[k] > 0 }

\* held after a step that leaves the store as `store`: the acting browser's
\* value is `own`, every other check keeps only the markers still present.
HeldAfter(store, s, own) ==
    [t \in Sessions |-> IF t = s THEN own ELSE held[t] \cap Live(store)]

\* A step of a logout request ends every "login no logout has followed".
NoLogin == [t \in Sessions |-> "none"]

\* revoked after the session record of s is cleared or replaced and user u has
\* logged in: a record of u that a global logout covered is no longer under
\* that logout.
RevokedAfterLogin(s, u) ==
    [t \in Sessions |->
       IF t = s \/ (revoked[t] = "global" /\ SessionUserId(session[t]) = u)
         THEN "no" ELSE revoked[t]]

\* revoked after the request of s has set the wildcard marker and cleared its
\* own record: every other record that holds a user id, with no request of its
\* browser in flight, is under a global logout.
RevokedAfterBroadcast(s) ==
    [t \in Sessions |->
       IF t = s THEN (IF HasUser(session[s]) THEN "no" ELSE revoked[s])
       ELSE IF Truthy(SessionUserId(session[t])) /\ pc[t] = "idle" /\ revoked[t] = "no"
         THEN "global" ELSE revoked[t]]

\* revoked after the request of s has marked its user u (if it has one) and
\* cleared its own record: every other record of u, with no request of its
\* browser in flight, is under that logout.
RevokedAfterUserLogout(s, u) ==
    [t \in Sessions |->
       IF t = s THEN "no"
       ELSE IF Truthy(u) /\ SessionUserId(session[t]) = u /\ pc[t] = "idle"
                /\ revoked[t] = "no"
         THEN "user" ELSE revoked[t]]

\* The request of s returns outcome r.
Finish(s, r) ==
    /\ pc' = [pc EXCEPT ![s] = "idle"]
    /\ user_id' = [user_id EXCEPT ![s] = None]
    /\ resp' = <<s, r>>
    /\ hit' = [hit EXCEPT ![s] = "none"]

\* The request of s goes on at position p with local user_id u.
Goto(s, p, u) ==
    /\ pc' = [pc EXCEPT ![s] = p]
    /\ user_id' = [user_id EXCEPT ![s] = u]
    /\ UNCHANGED resp

\* ------------------------------------------- GET /admin/dashboard (Auth Gate)

\* def admin_dashboard(): the handler behind the gate.
admin_dashboard(s) ==
    IF PORTAL_TYPE[s] # "admin" THEN "not_available" ELSE "dashboard"

\* require_auth, lines 126-138: no 'user' in session redirects to login;
\* else the first lookup of is_user_logged_out, EXISTS logout:<user_id>: a hit
\* short-circuits the `or` and the gate clears the session.
require_auth(s) ==
    /\ pc[s] = "idle"
    /\ IF ~HasUser(session[s])
         THEN /\ Finish(s, "gate_redirect_login")
              /\ UNCHANGED <<session, held, revoked>>
         ELSE LET uid == SessionUserId(session[s]) IN
                IF exists(logout_redis, Key(uid))
                  THEN /\ session' = [session EXCEPT ![s] = ClearedSession]
                       /\ Goto(s, "gate_recheck", uid)
                       /\ hit' = [hit EXCEPT ![s] = "user"]
                       /\ revoked' = [revoked EXCEPT ![s] = "no"]
                       /\ held' = [held EXCEPT ![s] =
                                     Live(logout_redis) \cap {Key(uid), WILDCARD}]
                  ELSE /\ Goto(s, "gate_exists_wildcard", uid)
                       /\ held' = [held EXCEPT ![s] =
                                     Live(logout_redis) \cap {Key(uid), WILDCARD}]
                       /\ UNCHANGED <<session, hit, revoked>>
    /\ login' = [login EXCEPT ![s] =
                   IF login[s] = "fresh" /\ pc'[s] # "idle" THEN "fresh" ELSE "none"]
    /\ UNCHANGED <<realm, PORTAL_TYPE, logout_redis>>

\* is_user_logged_out, second lookup: EXISTS logout:*; a hit clears the
\* session (lines 135-138), a miss lets the request through to the handler
\* (lines 144-145).
gate_exists_wildcard(s) ==
    /\ pc[s] = "gate_exists_wildcard"
    /\ IF exists(logout_redis, WILDCARD)
         THEN /\ session' = [session EXCEPT ![s] = ClearedSession]
              /\ Goto(s, "gate_recheck", user_id[s])
              /\ hit' = [hit EXCEPT ![s] = "wildcard"]
              /\ revoked' = [revoked EXCEPT ![s] = "no"]
              /\ UNCHANGED <<held, login>>
         ELSE /\ Finish(s, admin_dashboard(s))
              /\ held' = [held EXCEPT ![s] = {}]
              /\ login' = [login EXCEPT ![s] = "none"]
              /\ UNCHANGED <<session, revoked>>
    /\ UNCHANGED <<realm, PORTAL_TYPE, logout_redis>>

\* line 140: if logout_redis.exists("logout:*") and original_user_id
gate_recheck(s) ==
    /\ pc[s] = "gate_recheck"
    /\ IF exists(logout_redis, WILDCARD) /\ Truthy(user_id[s])
         THEN /\ Goto(s, "gate_mark", user_id[s])
              /\ UNCHANGED <<held, hit, login>>
         ELSE /\ Finish(s, "gate_clear_redirect")
              /\ held' = [held EXCEPT ![s] = {}]
              /\ login' = [login EXCEPT ![s] = "none"]
    /\ UNCHANGED <<realm, PORTAL_TYPE, logout_redis, session, revoked>>

\* lines 141-142: mark_user_logged_out(original_user_id); redirect to login
gate_mark(s) ==
    /\ pc[s] = "gate_mark"
    /\ logout_redis' = mark_user_logged_out(logout_redis, user_id[s])
    /\ Finish(s, "gate_clear_redirect")
    /\ held' = HeldAfter(logout_redis', s, {})
    /\ login' = [login EXCEPT ![s] = "none"]
    /\ UNCHANGED <<realm, PORTAL_TYPE, session, revoked>>

\* ------------------------------------------------------- GET /admin/login

\* def admin_login(), lines 165-171 and 178, with the first lookup of
\* is_user_logged_out (lines 172-175 on a hit)
admin_login(s) ==
    /\ pc[s] = "idle"
    /\ IF PORTAL_TYPE[s] # "admin"
         THEN /\ Finish(s, "not_available")
              /\ UNCHANGED <<session, revoked>>
         ELSE IF ~HasUser(session[s])
                THEN /\ Finish(s, "login_page")
                     /\ UNCHANGED <<session, revoked>>
                ELSE LET uid == SessionUserId(session[s]) IN
                       IF exists(logout_redis, Key(uid))
                         THEN /\ session' = [session EXCEPT ![s] = ClearedSession]
                              /\ Finish(s, "login_page")
                              /\ revoked' = [revoked EXCEPT ![s] = "no"]
                         ELSE /\ Goto(s, "login_exists_wildcard", uid)
                              /\ UNCHANGED <<session, hit, revoked>>
    /\ login' = [login EXCEPT ![s] = "none"]
    /\ UNCHANGED <<realm, PORTAL_TYPE, logout_redis, held>>

\* line 171, second lookup of is_user_logged_out; lines 172-176
login_exists_wildcard(s) ==
    /\ pc[s] = "login_exists_wildcard"
    /\ IF exists(logout_redis, WILDCARD)
         THEN /\ session' = [session EXCEPT ![s] = ClearedSession]
              /\ Finish(s, "login_page")
              /\ revoked' = [revoked EXCEPT ![s] = "no"]
         ELSE /\ Finish(s, "redirect_dashboard")
              /\ UNCHANGED <<session, revoked>>
    /\ UNCHANGED <<realm, PORTAL_TYPE, logout_redis, held, login>>

\* -------------------------------------------------------- GET /admin/auth

\* def admin_auth(): keycloak_client is set exactly on the admin portal (main)
admin_auth(s) ==
    /\ pc[s] = "idle"
    /\ Finish(s, IF PORTAL_TYPE[s] # "admin" THEN "not_available" ELSE "redirect_idp")
    /\ login' = [login EXCEPT ![s] = "none"]
    /\ UNCHANGED <<realm, PORTAL_TYPE, logout_redis, session, held, revoked>>

\* ---------------------------------------------------- GET /admin/callback

\* def admin_callback(), lines 193-214 and 220-229: the code exchange and,
\* when the token carries userinfo, the population of the session.
admin_callback(s) ==
    /\ pc[s] = "idle"
    /\ IF PORTAL_TYPE[s] # "admin"
         THEN /\ Finish(s, "not_available")
              /\ login' = [login EXCEPT ![s] = "none"]
              /\ UNCHANGED <<session, revoked>>
         ELSE \E r \in ExchangeResults(realm) :
                IF r.raised \/ "userinfo" \notin DOMAIN r.token
                  THEN /\ Finish(s, "error_page")
                       /\ login' = [login EXCEPT ![s] = "none"]
                       /\ UNCHANGED <<session, revoked>>
                  ELSE /\ session' = [session EXCEPT ![s] = PopulatedSession(r.token)]
                       /\ Goto(s, "cb_clear_user", SessionUserId(session'[s]))
                       /\ login' = [login EXCEPT ![s] =
                              IF Truthy(SessionUserId(session'[s])) THEN "callback" ELSE "none"]
                       /\ revoked' = RevokedAfterLogin(s, SessionUserId(session'[s]))
                       /\ UNCHANGED hit
    /\ UNCHANGED <<realm, PORTAL_TYPE, logout_redis, held>>

\* line 216: clear_logout_state(user_id)
cb_clear_user(s) ==
    /\ pc[s] = "cb_clear_user"
    /\ logout_redis' = clear_logout_state(logout_redis, user_id[s])
    /\ Goto(s, "cb_delete_wildcard", user_id[s])
    /\ held' = HeldAfter(logout_redis', s, held[s])
    /\ UNCHANGED <<realm, PORTAL_TYPE, session, hit, login, revoked>>

\* lines 217-219: logout_redis.delete("logout:*"); redirect to the dashboard
cb_delete_wildcard(s) ==
    /\ pc[s] = "cb_delete_wildcard"
    /\ logout_redis' = delete(logout_redis, WILDCARD)
    /\ Finish(s, "redirect_dashboard")
    /\ held' = HeldAfter(logout_redis', s, held[s])
    /\ login' = [login EXCEPT ![s] = IF login[s] = "callback" THEN "fresh" ELSE "none"]
    /\ revoked' = RevokedAfterLogin(s, user_id[s])
    /\ UNCHANGED <<realm, PORTAL_TYPE, session>>

\* ------------------------------------- POST /logout, /logout.html (back-channel)

\* def logout(), POST branch, lines 270-291: the logout token is only logged;
\* a user id in the session is marked.
logout_post(s) ==
    /\ pc[s] = "idle"
    /\ \E logout_token \in {None, "token"} :
         LET current_user_id_in_session == SessionUserId(session[s]) IN
           /\ logout_redis' = IF Truthy(current_user_id_in_session)
                                THEN mark_user_logged_out(logout_redis,
                                                          current_user_id_in_session)
                                ELSE logout_redis
           /\ Goto(s, "bc_mark_wildcard", current_user_id_in_session)
    /\ held' = HeldAfter(logout_redis', s, held[s])
    /\ login' = NoLogin
    /\ UNCHANGED <<realm, PORTAL_TYPE, session, hit, revoked>>

\* lines 294-302: mark_user_logged_out('*'); clear the session; 200
bc_mark_wildcard(s) ==
    /\ pc[s] = "bc_mark_wildcard"
    /\ logout_redis' = mark_user_logged_out(logout_redis, WILDCARD)
    /\ session' = [session EXCEPT ![s] =
                     IF HasUser(session[s]) THEN ClearedSession ELSE session[s]]
    /\ Finish(s, "logout_acknowledged")
    /\ held' = HeldAfter(logout_redis', s, held[s])
    /\ login' = NoLogin
    /\ revoked' = RevokedAfterBroadcast(s)
    /\ UNCHANGED <<realm, PORTAL_TYPE>>

\* -------------------------------------- GET /logout, /logout.html (front-channel)

\* lines 318-322: the response of the front-channel branch
front_channel_response(s) ==
    IF PORTAL_TYPE[s] = "admin" THEN "redirect_login" ELSE "logged_out"

\* def logout(), GET branch, lines 305-322
logout_get(s) ==
    /\ pc[s] = "idle"
    /\ LET current_user_id == SessionUserId(session[s]) IN
         logout_redis' = IF Truthy(current_user_id)
                           THEN mark_user_logged_out(logout_redis, current_user_id)
                           ELSE logout_redis
    /\ session' = [session EXCEPT ![s] = ClearedSession]
    /\ Finish(s, front_channel_response(s))
    /\ held' = HeldAfter(logout_redis', s, held[s])
    /\ login' = NoLogin
    /\ revoked' = RevokedAfterUserLogout(s, SessionUserId(session[s]))
    /\ UNCHANGED <<realm, PORTAL_TYPE>>

\* ------------------------------------------------------ GET /admin/logout

\* def admin_logout(), lines 327-348
admin_logout(s) ==
    /\ pc[s] = "idle"
    /\ IF PORTAL_TYPE[s] # "admin"
         THEN /\ Finish(s, "not_available")
              /\ UNCHANGED <<logout_redis, session, revoked>>
         ELSE LET uid == SessionUserId(session[s]) IN
                /\ logout_redis' = IF Truthy(uid)
                                     THEN mark_user_logged_out(logout_redis, uid)
                                     ELSE logout_redis
                /\ session' = [session EXCEPT ![s] = ClearedSession]
                /\ Finish(s, "redirect_idp_logout")
                /\ revoked' = RevokedAfterUserLogout(s, uid)
    /\ held' = HeldAfter(logout_redis', s, held[s])
    /\ login' = NoLogin
    /\ UNCHANGED <<realm, PORTAL_TYPE>>

\* ------------------------------------------------- invalidation store failure

\* A gate that takes a failed lookup for "not marked" and runs the handler.
gate_lookup_fail_open(s) ==
    /\ \/ pc[s] = "idle" /\ HasUser(session[s])
       \/ pc[s] = "gate_exists_wildcard"
    /\ Finish(s, admin_dashboard(s))
    /\ held' = [held EXCEPT ![s] = {}]
    /\ login' = [login EXCEPT ![s] = "none"]
    /\ UNCHANGED <<realm, PORTAL_TYPE, logout_redis, session, revoked>>

\* require_auth, line 134: a lookup of is_user_logged_out (line 112, the first
\* or the second EXISTS) raises because the store is unreachable.  Nothing in
\* require_auth or the application catches the exception: the request ends in
\* the server-error response with session.clear() (line 138) not reached.
gate_lookup_fails(s) ==
    /\ \/ pc[s] = "idle" /\ HasUser(session[s])
       \/ pc[s] = "gate_exists_wildcard"
    /\ Finish(s, "server_error")
    /\ held' = [held EXCEPT ![s] = {}]
    /\ login' = [login EXCEPT ![s] = "none"]
    /\ UNCHANGED <<realm, PORTAL_TYPE, logout_redis, session, revoked>>

\* require_auth, line 140: the EXISTS of the narrowing step raises.  The gate
\* has already found the user marked and cleared the session (line 138); the
\* request ends in the server-error response with line 141 not reached.
gate_recheck_fails(s) ==
    /\ pc[s] = "gate_recheck"
    /\ Finish(s, "server_error")
    /\ held' = [held EXCEPT ![s] = {}]
    /\ login' = [login EXCEPT ![s] = "none"]
    /\ UNCHANGED <<realm, PORTAL_TYPE, logout_redis, session, revoked>>

\* ------------------------------------------------------------ marker expiry

\* One tick of the store's clock: every key loses one unit of its lifetime
\* and a key whose lifetime runs out is gone (SETEX, line 115).
Tick ==
    /\ \E k \in Keys : logout_redis[k] > 0
    /\ logout_redis' = [k \in Keys |->
                          IF logout_redis[k] > 0 THEN logout_redis[k] - 1 ELSE 0]
    /\ held' = [t \in Sessions |-> held[t] \cap Live(logout_redis')]
    /\ UNCHANGED <<realm, PORTAL_TYPE, session, pc, user_id, resp, hit, login, revoked>>

\* ------------------------------------------------------------ specification

\* One step of the request browser s has in flight, or the arrival of its
\* next request.
Request(s) ==
    \/ require_auth(s)
    \/ gate_exists_wildcard(s)
    \/ gate_recheck(s)
    \/ gate_mark(s)
    \/ admin_login(s)
    \/ login_exists_wildcard(s)
    \/ admin_auth(s)
    \/ admin_callback(s)
    \/ cb_clear_user(s)
    \/ cb_delete_wildcard(s)
    \/ logout_post(s)
    \/ bc_mark_wildcard(s)
    \/ logout_get(s)
    \/ admin_logout(s)

Next == (\E s \in Sessions : Request(s)) \/ Tick

\* Requests run concurrently (thread per request): any browser may take its
\* next step at any time, and markers expire at any time.
Spec == Init /\ [][Next]_vars

\* The same requests with the clock stopped: no marker expires.
NextNoExpiry == \E s \in Sessions : Request(s)

SpecNoExpiry == Init /\ [][NextNoExpiry]_vars

\* No browser other than s has a request in flight.
Alone(s) == \A t \in Sessions \ {s} : pc[t] = "idle"

\* One request at a time: a request arrives only when no other is in flight,
\* and the clock ticks between requests.
NextSequential ==
    \/ \E s \in Sessions :
         \/ Alone(s) /\ require_auth(s)
         \/ Alone(s) /\ gate_exists_wildcard(s)
         \/ Alone(s) /\ gate_recheck(s)
         \/ Alone(s) /\ gate_mark(s)
         \/ Alone(s) /\ admin_login(s)
         \/ Alone(s) /\ login_exists_wildcard(s)
         \/ Alone(s) /\ admin_auth(s)
         \/ Alone(s) /\ admin_callback(s)
         \/ Alone(s) /\ cb_clear_user(s)
         \/ Alone(s) /\ cb_delete_wildcard(s)
         \/ Alone(s) /\ logout_post(s)
         \/ Alone(s) /\ bc_mark_wildcard(s)
         \/ Alone(s) /\ logout_get(s)
         \/ Alone(s) /\ admin_logout(s)
    \/ (\A t \in Sessions : pc[t] = "idle") /\ Tick

SpecSequential == Init /\ [][NextSequential]_vars

\* Concurrent requests under a clock that keeps running: redis expires a key
\* by real time, so a tick that is due is eventually taken.
SpecFair == Init /\ [][Next]_vars /\ WF_vars(Tick)

\* Concurrent requests, expiry, and a store that may be unreachable when the
\* gate looks a marker up.
NextOutage ==
    \/ Next
    \/ \E s \in Sessions : gate_lookup_fails(s)
    \/ \E s \in Sessions : gate_recheck_fails(s)

SpecOutage == Init /\ [][NextOutage]_vars

\* ----------------------------------------------------------------- claims

\* The gate check of s ends in "allow": the decorated handler runs.
GateAllows(s) ==
    /\ pc[s] = "gate_exists_wildcard"
    /\ pc'[s] = "idle"
    /\ resp' = <<s, admin_dashboard(s)>>

\* The gate check of s ends (in this step) in a redirect to the login page.
GateRedirects(s) ==
    /\ pc[s] \in {"gate_recheck", "gate_mark"}
    /\ pc'[s] = "idle"
    /\ resp' = <<s, "gate_clear_redirect">>

\* C1: a gate check on a session with user id S that starts while a marker
\* for S or the wildcard marker is in the store, and during which that marker
\* stays in the store, never allows the request: it goes past the first
\* lookup only when S has no marker, it allows only when no marker of S and no
\* wildcard marker was present throughout, and with such a marker it ends in
\* the redirect to login.
C1_MarkedSessionNeverAllowed ==
    [][\A s \in Sessions :
         /\ (pc[s] = "idle" /\ pc'[s] = "gate_exists_wildcard")
              => ~(Key(SessionUserId(session[s])) \in Live(logout_redis))
         /\ GateAllows(s) => held[s] = {}
         /\ (pc[s] \in {"gate_exists_wildcard", "gate_recheck", "gate_mark"}
               /\ pc'[s] = "idle" /\ held[s] # {})
              => GateRedirects(s) /\ ~HasUser(session'[s])
      ]_vars

\* C1 witness: a check that began under a wildcard marker which is still
\* there has found it and cleared the session.
C1_Witness ==
    \E s \in Sessions :
      /\ pc[s] = "gate_recheck"
      /\ hit[s] = "wildcard"
      /\ WILDCARD \in held[s]
      /\ Truthy(user_id[s])
      /\ ~HasUser(session[s])

\* C2: the handler behind the gate runs only when the session record has a
\* user id and neither lookup of the gate found a marker; a request that the
\* gate redirects never runs it.
C2_HandlerOnlyForUnmarkedUser ==
    [][\A s \in Sessions :
         /\ GateAllows(s) => Truthy(user_id[s]) /\ hit[s] = "none"
         /\ (pc[s] \in {"gate_recheck", "gate_mark"} /\ pc'[s] = "idle")
              => resp' = <<s, "gate_clear_redirect">>
         /\ (pc[s] = "idle" /\ require_auth(s) /\ pc'[s] = "idle")
              => resp' = <<s, "gate_redirect_login">>
      ]_vars

\* C3: a session record without a user id is never treated as authenticated:
\* the gate does not allow it and /admin/login does not send it to the
\* dashboard.
C3_NoUserIdNeverAuthenticated ==
    [][\A s \in Sessions :
         (\/ GateAllows(s)
          \/ /\ pc[s] = "login_exists_wildcard"
             /\ pc'[s] = "idle"
             /\ resp' = <<s, "redirect_dashboard">>)
           => Truthy(SessionUserId(session[s]))
      ]_vars

\* C4: when the gate finds the session's user U marked through the wildcard
\* lookup, then as the gate returns the session record is cleared and a
\* concrete marker for U is in the store, whatever other requests did to the
\* wildcard between the gate's lookups (stated for a provider that issues
\* only ordinary subject identifiers).
C4_WildcardHitLeavesConcreteMarker ==
    [][\A s \in Sessions :
         (/\ realm = WellFormedUserInfos
          /\ pc[s] \in {"gate_recheck", "gate_mark"}
          /\ pc'[s] = "idle"
          /\ hit[s] = "wildcard"
          /\ Truthy(user_id[s]))
           => /\ ~HasUser(session'[s])
              /\ exists(logout_redis', Key(user_id[s]))
      ]_vars

\* C5: once a callback for user U has completed and no step of a logout
\* request was taken since that callback began, the next gate check on the
\* session it populated finds no marker and allows the request (stated for a
\* provider that issues only ordinary subject identifiers).
C5_FreshLoginAllowed ==
    [][\A s \in Sessions :
         (realm = WellFormedUserInfos /\ login[s] = "fresh")
           => /\ pc'[s] # "gate_recheck"
              /\ (pc[s] = "gate_exists_wildcard" /\ pc'[s] = "idle")
                   => resp' = <<s, "dashboard">>
      ]_vars

\* The session record a login of subject u is to leave, per the claim sets
\* the provider issues for u.
LoggedInAs(u) ==
    CASE u = "alice" ->
           [user |-> [id |-> "alice", username |-> "alice",
                      email |-> "alice@example.com", name |-> "Alice A",
                      roles |-> <<"admin">>],
            access_token |-> "at"]
      [] u = "bob" ->
           [user |-> [id |-> "bob", username |-> "bob", email |-> None,
                      name |-> "bob", roles |-> <<>>],
            access_token |-> "at"]
      [] OTHER ->
           [user |-> [id |-> "*", username |-> "star", email |-> None,
                      name |-> "star", roles |-> <<>>],
            access_token |-> "at"]

C7_MarkersClearedBeforePopulation ==
    \A s \in Sessions :
      (realm = WellFormedUserInfos /\ pc[s] \in {"cb_clear_user", "cb_delete_wildcard"})
        => SessionUserId(session[s]) # user_id[s]

C9_FrontChannelLogout ==
    [][\A s \in Sessions :
         (pc[s] = "idle" /\ (logout_get(s) \/ (PORTAL_TYPE[s] = "admin" /\ admin_logout(s))))
           => LET U == SessionUserId(session[s]) IN
                /\ Truthy(U) => exists(logout_redis', Key(U))
                /\ DOMAIN session'[s] = {}
                /\ logout_redis'[WILDCARD] = logout_redis[WILDCARD]
                /\ \A k \in Keys \ {Key(U)} : logout_redis'[k] = logout_redis[k]
                /\ logout_get(s) =>
                     resp' = <<s, IF PORTAL_TYPE[s] = "admin"
                                    THEN "redirect_login" ELSE "logged_out">>
      ]_vars

\* C10: a callback that yields no usable identity claims (the exchange
\* raises, the token has no userinfo, or the userinfo has no subject) returns
\* the authentication-failure page, leaves the session record as it was and
\* neither creates nor deletes a marker.
C10_FailedLoginChangesNothing ==
    [][\A s \in Sessions :
         /\ (pc[s] = "idle" /\ PORTAL_TYPE[s] = "admin"
               /\ admin_callback(s) /\ ~Truthy(user_id'[s]))
              => /\ pc'[s] = "idle"
                 /\ resp' = <<s, "error_page">>
                 /\ session' = session
                 /\ logout_redis' = logout_redis
         /\ (pc[s] \in {"cb_clear_user", "cb_delete_wildcard"}
               /\ pc'[s] # pc[s] /\ ~Truthy(user_id[s]))
              => logout_redis' = logout_redis
      ]_vars

\* C11: is_user_logged_out(S) is true exactly when the key of S or the wildcard
\* key is live in the store: in every state, for every subject S, its value on
\* the store equals "marker of S live or wildcard live"; and each lookup the
\* gate and /admin/login make answers by the liveness of exactly the key it
\* asks for (the first by the key of the session's user id, the second by the
\* wildcard key), so a session with no marker of its own is stopped while the
\* wildcard is live and passes when neither is.
C11_IsMarkedExactOrWildcard ==
    [][LET live == Live(logout_redis) IN
       /\ \A S \in UserIds :
            is_user_logged_out(logout_redis, S)
              <=> (Key(S) \in live \/ WILDCARD \in live)
       /\ \A s \in Sessions :
            /\ (pc[s] = "idle" /\ HasUser(session[s])
                  /\ pc'[s] \in {"gate_recheck", "gate_exists_wildcard"}
                  /\ require_auth(s))
                 => (pc'[s] = "gate_recheck"
                       <=> Key(SessionUserId(session[s])) \in live)
            /\ (pc[s] = "gate_exists_wildcard" /\ pc'[s] # pc[s])
                 => /\ (pc'[s] = "gate_recheck") <=> (WILDCARD \in live)
                    /\ GateAllows(s) <=> (WILDCARD \notin live)
            /\ (pc[s] = "idle" /\ PORTAL_TYPE[s] = "admin" /\ HasUser(session[s])
                  /\ (pc'[s] = "login_exists_wildcard" \/ resp' = <<s, "login_page">>)
                  /\ admin_login(s))
                 => (pc'[s] = "idle"
                       <=> Key(SessionUserId(session[s])) \in live)
            /\ (pc[s] = "login_exists_wildcard" /\ pc'[s] # pc[s])
                 => (resp' = <<s, "login_page">> <=> WILDCARD \in live)
      ]_vars

\* C11 witness: the gate has stopped alice's session on the wildcard marker
\* alone: the wildcard is live and alice has no marker of her own.
C11_Witness ==
    \E s \in Sessions :
      /\ pc[s] = "gate_recheck"
      /\ hit[s] = "wildcard"
      /\ user_id[s] = "alice"
      /\ ~exists(logout_redis, "alice")
      /\ exists(logout_redis, WILDCARD)
      /\ is_user_logged_out(logout_redis, "alice")

\* The subjects a marker can be written for: the user ids and the wildcard.
Subjects == UserIds \cup {WILDCARD}

\* A step in which the request of s marks subject u (lines 141, 290, 294, 309
\* and 335).
Marks(s, u) ==
    \/ pc[s] = "gate_mark" /\ u = user_id[s] /\ pc'[s] # pc[s]
    \/ pc[s] = "bc_mark_wildcard" /\ u = WILDCARD /\ pc'[s] # pc[s]
    \/ /\ pc[s] = "idle"
       /\ u = SessionUserId(session[s])
       /\ Truthy(u)
       /\ \/ pc'[s] = "bc_mark_wildcard" /\ logout_post(s)
          \/ resp' = <<s, front_channel_response(s)>> /\ logout_get(s)
          \/ /\ PORTAL_TYPE[s] = "admin"
             /\ resp' = <<s, "redirect_idp_logout">>
             /\ admin_logout(s)

\* A step in which the request of s deletes key k (lines 216 and 217).
Clears(s, k) ==
    \/ pc[s] = "cb_clear_user" /\ pc'[s] # pc[s] /\ k = Key(user_id[s])
    \/ pc[s] = "cb_delete_wildcard" /\ pc'[s] # pc[s] /\ k = WILDCARD

\* C12: marker lifetime.  A step that marks S leaves the key of S with the
\* full lifetime TtlTicks, whether the key was absent (a subject never seen)
\* or already set (re-marking restarts the lifetime of the one key), and
\* is_user_logged_out(S) is true after it; a live key of S changes only by
\* such a mark, by a deletion of that key, or by the clock, which takes one
\* unit off it; while the key is live is_user_logged_out(S) is true, and once
\* it is gone and no wildcard is live is_user_logged_out(S) is false.
C12_MarkerLifetime ==
    [][/\ \A s \in Sessions : \A u \in Subjects :
            Marks(s, u)
              => /\ logout_redis'[Key(u)] = TtlTicks
                 /\ is_user_logged_out(logout_redis', u)
       /\ \A k \in Keys :
            logout_redis'[k] # logout_redis[k]
              => \/ /\ logout_redis[k] > 0
                    /\ \A j \in Keys :
                         logout_redis'[j] =
                           IF logout_redis[j] > 0 THEN logout_redis[j] - 1 ELSE 0
                 \/ (\E s \in Sessions : Clears(s, k)) /\ logout_redis'[k] = 0
                 \/ \E s \in Sessions : \E u \in Subjects :
                      Key(u) = k /\ Marks(s, u)
       /\ \A S \in UserIds :
            /\ logout_redis[Key(S)] > 0 => is_user_logged_out(logout_redis, S)
            /\ (logout_redis'[Key(S)] = 0 /\ logout_redis'[WILDCARD] = 0)
                 => ~is_user_logged_out(logout_redis', S)
      ]_vars

\* C12 witness: a back-channel logout has just marked alice, whose key has its
\* full lifetime, while the wildcard key set by an earlier logout has aged to
\* its last tick and is about to be marked again.
C12_Witness ==
    \E s \in Sessions :
      /\ pc[s] = "bc_mark_wildcard"
      /\ user_id[s] = "alice"
      /\ logout_redis["alice"] = TtlTicks
      /\ logout_redis[WILDCARD] = 1

\* The clock has taken one unit off every live key in this step.
Expires ==
    /\ \E k \in Keys : logout_redis[k] > 0
    /\ \A j \in Keys :
         logout_redis'[j] = IF logout_redis[j] > 0 THEN logout_redis[j] - 1 ELSE 0

\* C13: clear is subject-exact.  For every value S the callback passes to
\* clear_logout_state, the step removes the marker of S and leaves the
\* wildcard marker and the marker of every other subject as they were;
\* marking the wildcard (line 294) and deleting it (line 217) leave every
\* other key as it was; and a live wildcard marker goes away only by the
\* delete of line 217 or by expiry.
C13_ClearIsSubjectExact ==
    [][\A s \in Sessions :
         /\ (pc[s] = "cb_clear_user" /\ pc'[s] # pc[s])
              => /\ logout_redis'[WILDCARD] = logout_redis[WILDCARD]
                 /\ \A T \in UserIds \ {user_id[s]} :
                      logout_redis'[Key(T)] = logout_redis[Key(T)]
         /\ (pc[s] \in {"bc_mark_wildcard", "cb_delete_wildcard"} /\ pc'[s] # pc[s])
              => \A k \in Keys \ {WILDCARD} : logout_redis'[k] = logout_redis[k]
         /\ (logout_redis[WILDCARD] > 0 /\ logout_redis'[WILDCARD] = 0)
              => \/ Expires
                 \/ \E t \in Sessions : pc[t] = "cb_delete_wildcard" /\ pc'[t] # pc[t]
      ]_vars

\* C14: on a portal other than admin, a request to /admin/login, /admin/auth,
\* /admin/callback, /admin/dashboard or /admin/logout returns the 404 "not
\* available" response at once and changes neither the session record nor the
\* store.
C14_PortalGating ==
    [][\A s \in Sessions :
         (/\ PORTAL_TYPE[s] # "admin"
          /\ pc[s] = "idle"
          /\ \/ admin_login(s)
             \/ admin_auth(s)
             \/ admin_callback(s)
             \/ require_auth(s)
             \/ admin_logout(s))
           => /\ pc'[s] = "idle"
              /\ resp' = <<s, "not_available">>
              /\ session' = session
              /\ logout_redis' = logout_redis
      ]_vars

\* C15: GET /admin/login on the admin portal.  It redirects to the dashboard
\* only for a session with a user id for which both lookups found nothing;
\* when a lookup finds the session's user marked it clears the session record
\* and renders the login page; without a session user it renders the login
\* page and leaves the session record alone; no step of it changes the store.
C15_LoginPage ==
    [][\A s \in Sessions :
         /\ (pc[s] = "login_exists_wildcard" /\ pc'[s] # pc[s])
              => /\ logout_redis' = logout_redis
                 /\ resp' = <<s, "redirect_dashboard">>
                      => /\ Truthy(user_id[s])
                         /\ ~exists(logout_redis, WILDCARD)
                         /\ session' = session
                 /\ exists(logout_redis, WILDCARD)
                      => /\ resp' = <<s, "login_page">>
                         /\ DOMAIN session'[s] = {}
         /\ (pc[s] = "idle" /\ PORTAL_TYPE[s] = "admin" /\ admin_login(s))
              => /\ logout_redis' = logout_redis
                 /\ ~HasUser(session[s])
                      => /\ resp' = <<s, "login_page">>
                         /\ pc'[s] = "idle"
                         /\ session' = session
                 /\ (HasUser(session[s])
                       /\ exists(logout_redis, Key(SessionUserId(session[s]))))
                      => /\ resp' = <<s, "login_page">>
                         /\ pc'[s] = "idle"
                         /\ DOMAIN session'[s] = {}
      ]_vars

\* C16: a global logout is not undone for others by someone's login.  A
\* session record of user V that was in place when a back-channel logout set
\* the wildcard marker is not allowed by the gate until V logs in again,
\* whoever else logs in meanwhile (stated with the clock stopped and for a
\* provider that issues only ordinary subject identifiers).
C16_GlobalLogoutNotUndone ==
    [][\A s \in Sessions :
         (realm = WellFormedUserInfos /\ revoked[s] = "global") => ~GateAllows(s)
      ]_vars

\* C17: a logged-out session never comes back to life.  A session record of
\* user U that was in place when a front-channel logout from another browser
\* marked U is never allowed by the gate again, also not after U has logged in
\* anew from the other browser (stated with the clock stopped and for a
\* provider that issues only ordinary subject identifiers).
C17_LoggedOutSessionStaysOut ==
    [][\A s \in Sessions :
         (realm = WellFormedUserInfos /\ revoked[s] = "user") => ~GateAllows(s)
      ]_vars

\* C18: session lifecycle frame.  A step changes a session record only by
\* populating it in a successful login callback, after which it holds a user
\* id and the access token, or by clearing it completely; so no other
\* operation changes the user id of a populated record, and a record never
\* holds an access token without a user id.
C18_SessionLifecycleFrame ==
    [][\A s \in Sessions :
         /\ session'[s] # session[s]
              => \/ DOMAIN session'[s] = {}
                 \/ /\ pc[s] = "idle"
                    /\ pc'[s] = "cb_clear_user"
                    /\ Truthy(SessionUserId(session'[s]))
                    /\ Get(session'[s], "access_token", None) = "at"
         /\ "access_token" \in DOMAIN session'[s]
              => Truthy(SessionUserId(session'[s]))
      ]_vars

\* A step of a logout request: GET or POST /logout, or /admin/logout.
LogoutStep ==
    \E s \in Sessions :
      \/ pc[s] = "bc_mark_wildcard" /\ pc'[s] # pc[s]
      \/ pc[s] = "idle" /\ (logout_post(s) \/ logout_get(s) \/ admin_logout(s))

\* C19: markers are TTL-bounded and eventually disappear.  Every key in the
\* store carries a remaining lifetime of at most TtlTicks and every write
\* that makes a key live or prolongs it sets exactly TtlTicks; and, the clock
\* running, if from some point on no logout request takes a step, then
\* eventually the store holds no marker, and stays empty.
C19_MarkersExpire ==
    /\ [](\A k \in Keys : logout_redis[k] \in 0..TtlTicks)
    /\ [][\A k \in Keys :
            logout_redis'[k] > logout_redis[k] => logout_redis'[k] = TtlTicks]_vars
    /\ (<>[][~LogoutStep]_vars) => <>[](Live(logout_redis) = {})

====
